---- MODULE Spec2Model ----
(***************************************************************************)
(* Model of models/__init__.py: the package initializer that re-exports   *)
(* the collaborators' names and the lazy singleton accessor               *)
(* get_generator().                                                       *)
(*                                                                         *)
(* The module body (lines 7-27) runs once, statement by statement, at      *)
(* import.  After that any thread may call get_generator(); a call is      *)
(* modelled at the grain of the interpreter's instructions for lines       *)
(* 34-36, because nothing in the function holds a lock and another thread  *)
(* may run between any two of them.                                        *)
(***************************************************************************)
EXTENDS Integers, Sequences, FiniteSets, TLC

\* ------------------------------------------------------------------ bounds
NumThreads == 2
MaxCalls == 3

Threads == 1..NumThreads

\* ------------------------------------------------------- program constants
\* The value None that line 24 stores; generator instances are 1, 2, ...
None == 0
\* The global _generator before line 24 has run: the name is not bound.
Unbound == -1
\* The thread that imports the package and is the "single flow of control".
MainThread == CHOOSE t \in Threads : \A u \in Threads : t <= u

\* Errors MLXGenerator() may raise (models/generator.py is not part of the
\* fragment; the spec names a model-loading failure as the example).
CtorErrors == {"ModelLoadError", "MemoryError", "OSError"}

\* The public export list, lines 12-21.
AllList ==
    {"MLXGenerator", "MLXModelLoader", "ModelConfig", "PromptBuilder",
     "ResponseTemplate", "SentenceModelError", "TemplateMatcher", "TemplateMatch"}

\* Names bound by line 10 with one name forgotten (faulty variant of ImportTemplates).
ImportTemplatesShort ==
    {"ResponseTemplate", "TemplateMatcher", "TemplateMatch"}

\* Names bound by line 10.
ImportTemplates ==
    {"ResponseTemplate", "TemplateMatcher", "TemplateMatch", "SentenceModelError"}

\* The statements of the module body in execution order: the names each one
\* binds in the package namespace.
ModuleBody ==
    << {"MLXGenerator"},                      \* line 7
       {"MLXModelLoader", "ModelConfig"},     \* line 8
       {"PromptBuilder"},                     \* line 9
       ImportTemplates,                       \* line 10
       {"__all__"},                           \* lines 12-21
       {"_generator"},                        \* line 24
       {"get_generator"} >>                   \* line 27

VARIABLES
    modpc,       \* index in ModuleBody of the next statement of the import
    namespace,   \* names bound in the package namespace
    exported,    \* value of __all__ (empty until lines 12-21 have run)
    generator,   \* value of the global _generator
    ctorCalls,   \* number of times MLXGenerator() has been invoked
    instances,   \* generator instances whose construction succeeded
    calls,       \* number of get_generator() calls started
    pc,          \* per thread: position inside get_generator()
    callNo,      \* per thread: ordinal of its current call
    startGen,    \* per thread: value of _generator when its call began
    observed,    \* per thread: value of _generator read by line 34
    obj,         \* per thread: top of the evaluation stack
    exc,         \* per thread: exception in flight
    ctorLog,     \* completed constructions, in order of completion
    stores,      \* stores into _generator by line 35, in order
    log          \* completed calls, in order of completion

vars == << modpc, namespace, exported, generator, ctorCalls, instances, calls,
           pc, callNo, startGen, observed, obj, exc, ctorLog, stores, log >>

modvars == << modpc, namespace, exported >>
threadvars == << pc, callNo, startGen, observed, obj, exc >>

ImportDone == modpc > Len(ModuleBody)

Init ==
    /\ modpc = 1
    /\ namespace = {}
    /\ exported = {}
    /\ generator = Unbound
    /\ ctorCalls = 0
    /\ instances = {}
    /\ calls = 0
    /\ pc = [t \in Threads |-> "idle"]
    /\ callNo = [t \in Threads |-> 0]
    /\ startGen = [t \in Threads |-> None]
    /\ observed = [t \in Threads |-> None]
    /\ obj = [t \in Threads |-> None]
    /\ exc = [t \in Threads |-> "none"]
    /\ ctorLog = << >>
    /\ stores = << >>
    /\ log = << >>

\* --------------------------------------------------------- module import
\* Line 24 written as an eager construction (faulty variant of ImportStep).
ImportStepEager ==
    /\ ~ImportDone
    /\ namespace' = namespace \cup ModuleBody[modpc]
    /\ exported' = IF "__all__" \in ModuleBody[modpc] THEN AllList ELSE exported
    /\ IF "_generator" \in ModuleBody[modpc]
          THEN /\ generator' = Cardinality(instances) + 1
               /\ instances' = instances \cup {Cardinality(instances) + 1}
               /\ ctorCalls' = ctorCalls + 1
          ELSE UNCHANGED << generator, instances, ctorCalls >>
    /\ modpc' = modpc + 1
    /\ UNCHANGED << calls, threadvars, ctorLog, stores, log >>

\* One statement of the module body, lines 7-27: it binds its names; lines
\* 12-21 set __all__ and line 24 sets _generator to None.  No statement of
\* the body calls MLXGenerator.
ImportStep ==
    /\ ~ImportDone
    /\ namespace' = namespace \cup ModuleBody[modpc]
    /\ exported' = IF "__all__" \in ModuleBody[modpc] THEN AllList ELSE exported
    /\ generator' = IF "_generator" \in ModuleBody[modpc] THEN None ELSE generator
    /\ modpc' = modpc + 1
    /\ UNCHANGED << ctorCalls, instances, calls, threadvars, ctorLog, stores, log >>

\* ----------------------------------------------------------- get_generator
\* A caller enters get_generator() (line 27); the package has been imported.
Call(t) ==
    /\ ImportDone
    /\ "get_generator" \in namespace
    /\ pc[t] = "idle"
    /\ calls < MaxCalls
    /\ calls' = calls + 1
    /\ callNo' = [callNo EXCEPT ![t] = calls + 1]
    /\ startGen' = [startGen EXCEPT ![t] = generator]
    /\ pc' = [pc EXCEPT ![t] = "L34"]
    /\ UNCHANGED << modvars, generator, ctorCalls, instances, observed, obj, exc,
                    ctorLog, stores, log >>

\* Line 34 with the test dropped: construct on every call (faulty variant of Branch).
BranchAlways(v) == "L35"

\* Line 34, `if _generator is None`: where control goes for the value read.
Branch(v) == IF v = None THEN "L35" ELSE "L36"

\* Line 34: read the global and test it.
Test(t) ==
    /\ pc[t] = "L34"
    /\ observed' = [observed EXCEPT ![t] = generator]
    /\ pc' = [pc EXCEPT ![t] = Branch(generator)]
    /\ UNCHANGED << modvars, generator, ctorCalls, instances, calls, callNo,
                    startGen, obj, exc, ctorLog, stores, log >>

\* Line 35, right-hand side: MLXGenerator() is invoked.
CtorCall(t) ==
    /\ pc[t] = "L35"
    /\ ctorCalls' = ctorCalls + 1
    /\ pc' = [pc EXCEPT ![t] = "ctor"]
    /\ UNCHANGED << modvars, generator, instances, calls, callNo, startGen,
                    observed, obj, exc, ctorLog, stores, log >>

\* MLXGenerator() returns a new instance, left on the caller's stack.
CtorReturn(t) ==
    /\ pc[t] = "ctor"
    /\ LET new == Cardinality(instances) + 1 IN
          /\ instances' = instances \cup {new}
          /\ obj' = [obj EXCEPT ![t] = new]
          /\ ctorLog' = Append(ctorLog, [call |-> callNo[t], observed |-> observed[t],
                                         ok |-> TRUE, err |-> "none", inst |-> new])
    /\ pc' = [pc EXCEPT ![t] = "L35s"]
    /\ UNCHANGED << modvars, generator, ctorCalls, calls, callNo, startGen,
                    observed, exc, stores, log >>

\* MLXGenerator() raises: the exception is in flight in get_generator's frame.
CtorRaise(t) ==
    /\ pc[t] = "ctor"
    /\ \E e \in CtorErrors :
          /\ exc' = [exc EXCEPT ![t] = e]
          /\ ctorLog' = Append(ctorLog, [call |-> callNo[t], observed |-> observed[t],
                                         ok |-> FALSE, err |-> e, inst |-> None])
    /\ pc' = [pc EXCEPT ![t] = "unwind"]
    /\ UNCHANGED << modvars, generator, ctorCalls, instances, calls, callNo,
                    startGen, observed, obj, stores, log >>

\* Line 35, the assignment: store the new instance in the global.
Store(t) ==
    /\ pc[t] = "L35s"
    /\ generator' = obj[t]
    /\ stores' = Append(stores, [call |-> callNo[t], inst |-> obj[t]])
    /\ pc' = [pc EXCEPT ![t] = "L36"]
    /\ UNCHANGED << modvars, ctorCalls, instances, calls, callNo, startGen,
                    observed, obj, exc, ctorLog, log >>

\* Line 36 returning what the frame already holds instead of reading the
\* global again (faulty variant of Load).
LoadLocal(t) ==
    /\ pc[t] = "L36"
    /\ pc' = [pc EXCEPT ![t] = "ret"]
    /\ UNCHANGED << modvars, generator, ctorCalls, instances, calls, callNo,
                    startGen, observed, obj, exc, ctorLog, stores, log >>

\* Line 36, the operand: read the global again.
Load(t) ==
    /\ pc[t] = "L36"
    /\ obj' = [obj EXCEPT ![t] = generator]
    /\ pc' = [pc EXCEPT ![t] = "ret"]
    /\ UNCHANGED << modvars, generator, ctorCalls, instances, calls, callNo,
                    startGen, observed, exc, ctorLog, stores, log >>

\* Line 36, the return: the value read is delivered to the caller.
Return(t) ==
    /\ pc[t] = "ret"
    /\ log' = Append(log, [call |-> callNo[t], outcome |-> "return",
                           value |-> obj[t], err |-> "none", cache |-> generator])
    /\ pc' = [pc EXCEPT ![t] = "idle"]
    /\ UNCHANGED << modvars, generator, ctorCalls, instances, calls, callNo,
                    startGen, observed, obj, exc, ctorLog, stores >>

\* The frame with a handler that swallows the error and returns the cache
\* (faulty variant of Unwind).
UnwindSwallow(t) ==
    /\ pc[t] = "unwind"
    /\ log' = Append(log, [call |-> callNo[t], outcome |-> "return",
                           value |-> generator, err |-> "none", cache |-> generator])
    /\ exc' = [exc EXCEPT ![t] = "none"]
    /\ pc' = [pc EXCEPT ![t] = "idle"]
    /\ UNCHANGED << modvars, generator, ctorCalls, instances, calls, callNo,
                    startGen, observed, obj, ctorLog, stores >>

\* The frame with a handler that clears the cache before re-raising
\* (faulty variant of Unwind).
UnwindReset(t) ==
    /\ pc[t] = "unwind"
    /\ generator' = None
    /\ log' = Append(log, [call |-> callNo[t], outcome |-> "raise",
                           value |-> None, err |-> exc[t], cache |-> None])
    /\ exc' = [exc EXCEPT ![t] = "none"]
    /\ pc' = [pc EXCEPT ![t] = "idle"]
    /\ UNCHANGED << modvars, ctorCalls, instances, calls, callNo,
                    startGen, observed, obj, ctorLog, stores >>

\* The frame with a handler that caches the half-built object before
\* re-raising (faulty variant of Unwind).
UnwindCacheFailure(t) ==
    /\ pc[t] = "unwind"
    /\ generator' = Cardinality(instances) + 1
    /\ log' = Append(log, [call |-> callNo[t], outcome |-> "raise",
                           value |-> None, err |-> exc[t],
                           cache |-> Cardinality(instances) + 1])
    /\ exc' = [exc EXCEPT ![t] = "none"]
    /\ pc' = [pc EXCEPT ![t] = "idle"]
    /\ UNCHANGED << modvars, ctorCalls, instances, calls, callNo,
                    startGen, observed, obj, ctorLog, stores >>

\* Lines 33-36 contain no try/except/finally: the exception raised inside
\* line 35 leaves get_generator() as it is and reaches the caller; nothing
\* is stored.
Unwind(t) ==
    /\ pc[t] = "unwind"
    /\ log' = Append(log, [call |-> callNo[t], outcome |-> "raise",
                           value |-> None, err |-> exc[t], cache |-> generator])
    /\ exc' = [exc EXCEPT ![t] = "none"]
    /\ pc' = [pc EXCEPT ![t] = "idle"]
    /\ UNCHANGED << modvars, generator, ctorCalls, instances, calls, callNo,
                    startGen, observed, obj, ctorLog, stores >>

ThreadStep(t) ==
    \/ Call(t)
    \/ Test(t)
    \/ CtorCall(t)
    \/ CtorReturn(t)
    \/ CtorRaise(t)
    \/ Store(t)
    \/ Load(t)
    \/ Return(t)
    \/ Unwind(t)

\* Any number of threads call get_generator() with no synchronization.
Next ==
    \/ ImportStep
    \/ \E t \in Threads : ThreadStep(t)

Spec == Init /\ [][Next]_vars

\* A single flow of control: only the main thread calls get_generator().
NextSeq ==
    \/ ImportStep
    \/ ThreadStep(MainThread)

SpecSeq == Init /\ [][NextSeq]_vars

\* ------------------------------------------------------------- vocabulary
Initialized == generator \notin {None, Unbound}

Returned(i) == log[i].outcome = "return"
Raised(i) == log[i].outcome = "raise"
SomeReturned == \E i \in DOMAIN log : Returned(i)
NumRaised == Cardinality({i \in DOMAIN log : Raised(i)})
NumBuilt == Cardinality({j \in DOMAIN ctorLog : ctorLog[j].ok})
Quiescent == \A t \in Threads : pc[t] = "idle"

\* ------------------------------------------------------------------ claims

\* C1 - Singleton identity: in every sequence of calls to get_generator()
\* made one after the other, all the references returned are the same
\* generator instance, and it is a successfully constructed one.
SingletonIdentity ==
    \A i, j \in DOMAIN log :
        (Returned(i) /\ Returned(j)) =>
            /\ log[i].value = log[j].value
            /\ log[i].value \in instances

\* C1 witness: three calls have returned.
SingletonIdentityWitness ==
    /\ Len(log) = 3
    /\ \A i \in DOMAIN log : Returned(i)

\* C2 as stated - under single-threaded access, after any sequence of one or
\* more get_generator() calls the constructor has been invoked exactly once.
ConstructionCountOnce ==
    (Len(log) >= 1 /\ pc[MainThread] = "idle") => ctorCalls = 1

\* C2 amended - under single-threaded access, after any sequence of one or
\* more get_generator() calls the constructor has been invoked once for every
\* call whose construction failed plus exactly once for the first call whose
\* construction succeeded (if there is one): exactly one invocation succeeds,
\* no call after it invokes the constructor, and with no failure the count
\* is exactly one.
ConstructionCountAmended ==
    (Len(log) >= 1 /\ pc[MainThread] = "idle") =>
        /\ ctorCalls = NumRaised + (IF SomeReturned THEN 1 ELSE 0)
        /\ NumBuilt = (IF SomeReturned THEN 1 ELSE 0)
        /\ Cardinality(instances) = NumBuilt
        /\ \A i, j \in DOMAIN log : (i < j /\ Returned(i)) => Returned(j)
        /\ (NumRaised = 0 => ctorCalls = 1)

\* C2 witness: a failed call, then the call that constructs, then one more.
ConstructionCountWitness ==
    /\ Len(log) = 3
    /\ pc[MainThread] = "idle"
    /\ Raised(1) /\ Returned(2) /\ Returned(3)
    /\ ctorCalls = 2

\* C3 - Lazy construction: importing the package invokes the constructor zero
\* times and leaves the cached reference absent; while no get_generator()
\* call has started the construction count is 0; and every constructor
\* invocation belongs to a get_generator() call that read the cache as None.
LazyConstruction ==
    /\ calls = 0 => (ctorCalls = 0 /\ instances = {} /\ ~Initialized)
    /\ (ImportDone /\ calls = 0) => generator = None
    /\ \A j \in DOMAIN ctorLog :
          ctorLog[j].observed = None /\ ctorLog[j].call \in 1..calls
    /\ \A t \in Threads :
          pc[t] \in {"L35", "ctor"} => (observed[t] = None /\ callNo[t] \in 1..calls)
    /\ ctorCalls = Len(ctorLog) + Cardinality({t \in Threads : pc[t] = "ctor"})
    /\ ctorCalls <= calls

\* C3 witness: the import has finished and nobody has called get_generator().
LazyConstructionWitness ==
    /\ ImportDone
    /\ "get_generator" \in namespace
    /\ calls = 0
    /\ ctorCalls = 0
    /\ generator = None

\* C4 - Single-instance invariant: with a single flow of control, at every
\* point at most one successfully constructed instance exists, whatever calls
\* failed before, and once the cache is Initialized exactly one exists: the
\* cached one.
SingleInstance ==
    /\ Cardinality(instances) <= 1
    /\ Initialized => instances = {generator}

\* C4 witness: the cache is Initialized after a call that failed, and a
\* further call has run.
SingleInstanceWitness ==
    /\ Initialized
    /\ Len(log) = 3
    /\ Raised(1)
    /\ Cardinality(instances) = 1

\* C5 as stated - get_generator() stores into the cached reference and
\* invokes the constructor in the first call only.
FirstCallOnlyMutates ==
    /\ \A i \in DOMAIN stores : stores[i].call = 1
    /\ \A j \in DOMAIN ctorLog : ctorLog[j].call = 1
    /\ \A t \in Threads : pc[t] \in {"ctor", "L35s", "unwind"} => callNo[t] = 1

\* C5 amended - get_generator() mutates the cached reference only in a call
\* that found it absent and whose construction succeeded (setting it to the
\* new instance), which need not be the first call; with calls made one
\* after the other there is one such call; every call that begins once the
\* cache is Initialized is a side-effect-free read: it leaves the cached
\* reference unchanged and invokes no constructor.
SideEffectsAmended ==
  /\ [](Len(stores) <= 1)
  /\
    [][ /\ (ImportDone /\ generator' # generator) =>
              \E t \in Threads :
                  /\ pc[t] = "L35s" /\ pc'[t] = "L36"
                  /\ startGen[t] = None /\ observed[t] = None
                  /\ generator' = obj[t]
                  /\ \E j \in DOMAIN ctorLog :
                        /\ ctorLog[j].call = callNo[t]
                        /\ ctorLog[j].ok
                        /\ ctorLog[j].inst = obj[t]
        /\ (ctorCalls' # ctorCalls) =>
              \E t \in Threads :
                  /\ pc[t] = "L35" /\ pc'[t] = "ctor"
                  /\ startGen[t] = None
        /\ \A t \in Threads :
              (pc[t] # "idle" /\ startGen[t] # None) =>
                  (pc[t] \in {"L34", "L36", "ret"} /\ Initialized)
      ]_vars

\* C5 witness: after a call that failed, a call that began with the cache
\* Initialized is about to return.
SideEffectsWitness ==
    /\ \E i \in DOMAIN log : Raised(i)
    /\ Len(stores) = 1
    /\ \E t \in Threads : pc[t] = "ret" /\ startGen[t] # None /\ obj[t] = generator

\* C6 - Error propagation: a get_generator() call whose construction fails
\* ends by raising exactly the error the constructor raised; such a call
\* never returns a value, and get_generator() raises nothing else.
ErrorPropagation ==
    /\ \A i \in DOMAIN log :
          Raised(i) =>
              /\ log[i].err \in CtorErrors
              /\ \E j \in DOMAIN ctorLog :
                    /\ ctorLog[j].call = log[i].call
                    /\ ~ctorLog[j].ok
                    /\ ctorLog[j].err = log[i].err
    /\ \A j \in DOMAIN ctorLog :
          ~ctorLog[j].ok =>
              /\ \A i \in DOMAIN log :
                    log[i].call = ctorLog[j].call =>
                        (Raised(i) /\ log[i].err = ctorLog[j].err)
              /\ \/ \E i \in DOMAIN log : log[i].call = ctorLog[j].call
                 \/ \E t \in Threads :
                       /\ callNo[t] = ctorLog[j].call
                       /\ pc[t] = "unwind"
                       /\ exc[t] = ctorLog[j].err
    /\ \A i, k \in DOMAIN log : log[i].call = log[k].call => i = k

\* C6 witness: two calls have failed with different errors, each delivered.
ErrorPropagationWitness ==
    \E i, k \in DOMAIN log :
        /\ Raised(i) /\ Raised(k)
        /\ log[i].err # log[k].err

\* C7 - Known race: with two or more threads, an interleaving is reachable
\* (the witness) in which two first calls both read the cache as None before
\* either stores and two instances are constructed; and two instances arise
\* in no other way: whenever more than one instance exists, two different
\* calls each read None at line 34 and each built one.
KnownRace ==
    Cardinality(instances) >= 2 =>
        \E i, j \in DOMAIN ctorLog :
            /\ i # j
            /\ ctorLog[i].call # ctorLog[j].call
            /\ ctorLog[i].ok /\ ctorLog[j].ok
            /\ ctorLog[i].observed = None /\ ctorLog[j].observed = None
            /\ ctorLog[i].inst # ctorLog[j].inst

\* C7 witness: two threads, both past the None test of their first call and
\* both holding a freshly built instance, with nothing stored yet.
KnownRaceWitness ==
    /\ generator = None
    /\ Cardinality(instances) = 2
    /\ \E t, u \in Threads :
          /\ t # u
          /\ pc[t] = "L35s" /\ pc[u] = "L35s"
          /\ observed[t] = None /\ observed[u] = None
          /\ obj[t] # obj[u]

\* C8 - Re-export completeness: after import every name of __all__ is bound
\* in the package namespace.
ReExportComplete ==
    /\ "__all__" \in namespace => exported = AllList
    /\ ImportDone => ("__all__" \in namespace /\ exported \subseteq namespace)

\* C8 witness: the import has finished and __all__ holds the eight names.
ReExportWitness ==
    /\ ImportDone
    /\ Cardinality(exported) = 8
    /\ "SentenceModelError" \in exported

\* C9 - Two-state one-way lifecycle: once the package is imported the cache
\* is either None or a constructed instance, it is None until a call has
\* started, and once it holds an instance no step of any thread ever makes
\* it None again.
Lifecycle ==
    /\ [](ImportDone => (generator = None \/ generator \in instances))
    /\ []((ImportDone /\ calls = 0) => generator = None)
    /\ [][Initialized => Initialized']_vars

\* C9 witness: the cache is Initialized while a call that read None fails.
LifecycleWitness ==
    /\ Initialized
    /\ \E t \in Threads : pc[t] = "unwind"

\* C10 - Failure is not cached: with calls made one after the other, a call
\* whose construction fails leaves the cache None, so the next call invokes
\* the constructor again, and the first call whose construction succeeds is
\* the one that initializes the cache (with the instance it built).
FailureNotCached ==
    /\ \A i \in DOMAIN log : Raised(i) => log[i].cache = None
    /\ (log # << >> /\ Raised(Len(log)) /\ pc[MainThread] \in {"idle", "L34"}) =>
          generator = None
    /\ \A i \in DOMAIN log :
          (Raised(i) /\ i + 1 \in DOMAIN log) =>
              \E j \in DOMAIN ctorLog : ctorLog[j].call = log[i + 1].call
    /\ (log # << >> /\ Raised(Len(log)) /\ pc[MainThread] \in {"L36", "ret"}) =>
          \E j \in DOMAIN ctorLog : ctorLog[j].call = callNo[MainThread]
    /\ \A j \in DOMAIN ctorLog :
          (ctorLog[j].ok /\ \A k \in 1..(j - 1) : ~ctorLog[k].ok) =>
              /\ \A i \in DOMAIN stores : stores[i] = [call |-> ctorLog[j].call,
                                                      inst |-> ctorLog[j].inst]
              /\ Initialized => (stores # << >> /\ generator = ctorLog[j].inst)
              /\ (~Initialized) => pc[MainThread] = "L35s"
    /\ Initialized => NumBuilt >= 1

\* C10 witness: two calls failed and the third initialized the cache.
FailureNotCachedWitness ==
    /\ Len(log) = 3
    /\ Raised(1) /\ Raised(2) /\ Returned(3)
    /\ ctorCalls = 3
    /\ Initialized

\* The cache is Initialized and no call is between reading it as None at
\* line 34 and storing at line 35 (or failing).
Settled ==
    /\ Initialized
    /\ \A t \in Threads : pc[t] \notin {"L35", "ctor", "L35s"}

\* C11 as stated - under any interleaving, every call that returns delivers
\* a non-absent reference equal to the cache content at the moment it
\* returns; and once the cache is Initialized and every call that read it as
\* None has completed its store, the cache never changes again and the calls
\* that start after that point return that instance.
ConvergenceAsStated ==
    /\ [](\A i \in DOMAIN log :
             Returned(i) => (log[i].value # None /\ log[i].value = log[i].cache))
    /\ [][Settled => (Settled' /\ generator' = generator)]_vars
    /\ [](\A t \in Threads :
             (Settled /\ pc[t] = "ret" /\ startGen[t] = generator) =>
                 obj[t] = generator)

\* C11 amended - under any interleaving, every call that returns delivers a
\* non-absent reference to a constructed instance that was the cache content
\* when line 36 read it (possibly built by another thread); at the moment it
\* returns the cache holds that instance or one stored after it by a racing
\* call.  Once the cache is Initialized and every call that read it as None
\* has completed its store, the cache never changes again and the calls that
\* start after that point return that instance.
ConvergenceAmended ==
    /\ [](\A i \in DOMAIN log :
             Returned(i) =>
                 /\ log[i].value \in instances
                 /\ \E a, b \in DOMAIN stores :
                       /\ a <= b
                       /\ stores[a].inst = log[i].value
                       /\ stores[b].inst = log[i].cache)
    /\ [](\A t \in Threads :
             pc[t] = "ret" =>
                 \E a \in DOMAIN stores :
                     /\ stores[a].inst = obj[t]
                     /\ generator = stores[Len(stores)].inst)
    /\ [][Settled => (Settled' /\ generator' = generator)]_vars
    /\ [](\A t \in Threads :
             (Settled /\ pc[t] = "ret" /\ startGen[t] = generator) =>
                 obj[t] = generator)

\* C11 witness: two calls raced and both stored, one of them returned the
\* instance that the other had already overwritten, and a call that started
\* after the race is about to return the cached instance.
ConvergenceWitness ==
    /\ Settled
    /\ Len(stores) = 2
    /\ \E i \in DOMAIN log : Returned(i) /\ log[i].value # log[i].cache
    /\ \E t \in Threads :
          /\ pc[t] = "ret"
          /\ callNo[t] = 3
          /\ startGen[t] = generator
          /\ obj[t] = generator

====
